---- MODULE Spec2Model ----
(***************************************************************************)
(* Model of predictor-backend/main.py: the process-wide fitted pair        *)
(* (model, scaler, model_loaded), the two pickle files it is persisted to, *)
(* the startup load, the retrain trigger, the health check and the predict *)
(* pipeline (fetch, validate, create_features, scale, classify, bucket).   *)
(*                                                                         *)
(* Every request handler is an `async def` without an await, so a handler  *)
(* runs to completion on the event loop before the next one starts: each   *)
(* handler is one action.  An exception raised inside a handler is an      *)
(* outcome of that action.  The server runs startup_event before it serves *)
(* a request and exits when startup_event raises, so the handlers act only *)
(* on a process whose startup has returned.  The pickle files outlive the  *)
(* process; the globals do not.                                            *)
(***************************************************************************)
EXTENDS Integers, Sequences, FiniteSets, TLC

\* ---- bounds of the model ----
\* prices range over 1..MaxPrice (OHLCVData requires them > 0)
MaxPrice == 2
\* volumes are 0 or MaxVolume (OHLCVData requires them >= 0)
MaxVolume == 3
\* number of create_demo_model runs over the life of the deployment
MaxFits == 3

\* ---- rationals, for the float divisions of create_features ----
Rat(n, d) == [num |-> n, den |-> d]
Whole(n) == Rat(n, 1)
Abs(x) == IF x < 0 THEN -x ELSE x
Max2(a, b) == IF a >= b THEN a ELSE b
Min2(a, b) == IF a <= b THEN a ELSE b

\* ---- OHLCVData (pydantic model) ----
Prices == 1..MaxPrice
Volumes == {0, MaxVolume}
OHLCVData == [open : Prices, high : Prices, low : Prices, close : Prices, volume : Volumes]
NoData == [open |-> 0, high |-> 0, low |-> 0, close |-> 0, volume |-> 0]

\* validate_ohlcv_data with the last comparison dropped
validate_ohlcv_data_no_low_close(data) ==
    IF data.high < data.low THEN FALSE
    ELSE IF data.high < data.open \/ data.high < data.close THEN FALSE
    ELSE IF data.low > data.open THEN FALSE
    ELSE TRUE

validate_ohlcv_data(data) ==
    IF data.high < data.low THEN FALSE
    ELSE IF data.high < data.open \/ data.high < data.close THEN FALSE
    ELSE IF data.low > data.open \/ data.low > data.close THEN FALSE
    ELSE TRUE

\* ---- create_features ----
FeatureNames == <<"open", "high", "low", "close", "volume", "price_range", "body_size",
                  "upper_shadow", "lower_shadow", "body_ratio", "upper_shadow_ratio",
                  "lower_shadow_ratio", "volume_ratio", "price_change", "rsi_approx">>

\* 50 + price_change * 10, clamped to [0, 100]
rsi_clamp(price_change) ==
    LET raw == Rat(50 * price_change.den + 10 * price_change.num, price_change.den)
    IN  IF raw.num < 0 THEN Whole(0)
        ELSE IF raw.num > 100 * raw.den THEN Whole(100)
        ELSE raw

\* create_features dividing by price_range without the guard
create_features_unguarded(ohlcv_data) ==
    LET price_range == ohlcv_data.high - ohlcv_data.low
        body_size == Abs(ohlcv_data.close - ohlcv_data.open)
        upper_shadow == ohlcv_data.high - Max2(ohlcv_data.open, ohlcv_data.close)
        lower_shadow == Min2(ohlcv_data.open, ohlcv_data.close) - ohlcv_data.low
        body_ratio == Rat(body_size, price_range)
        upper_shadow_ratio == Rat(upper_shadow, price_range)
        lower_shadow_ratio == Rat(lower_shadow, price_range)
        hlc == ohlcv_data.high + ohlcv_data.low + ohlcv_data.close
        volume_ratio == IF hlc > 0 THEN Rat(ohlcv_data.volume, hlc) ELSE Whole(0)
        price_change == IF ohlcv_data.open > 0
                        THEN Rat(ohlcv_data.close - ohlcv_data.open, ohlcv_data.open)
                        ELSE Whole(0)
        rsi_approx == rsi_clamp(price_change)
    IN  [open |-> Whole(ohlcv_data.open), high |-> Whole(ohlcv_data.high),
         low |-> Whole(ohlcv_data.low), close |-> Whole(ohlcv_data.close),
         volume |-> Whole(ohlcv_data.volume), price_range |-> Whole(price_range),
         body_size |-> Whole(body_size), upper_shadow |-> Whole(upper_shadow),
         lower_shadow |-> Whole(lower_shadow), body_ratio |-> body_ratio,
         upper_shadow_ratio |-> upper_shadow_ratio,
         lower_shadow_ratio |-> lower_shadow_ratio, volume_ratio |-> volume_ratio,
         price_change |-> price_change, rsi_approx |-> rsi_approx]

\* features_dict of create_features; a division is Rat(n, d), the guarded value is 0
create_features(ohlcv_data) ==
    LET price_range == ohlcv_data.high - ohlcv_data.low
        body_size == Abs(ohlcv_data.close - ohlcv_data.open)
        upper_shadow == ohlcv_data.high - Max2(ohlcv_data.open, ohlcv_data.close)
        lower_shadow == Min2(ohlcv_data.open, ohlcv_data.close) - ohlcv_data.low
        body_ratio == IF price_range > 0 THEN Rat(body_size, price_range) ELSE Whole(0)
        upper_shadow_ratio == IF price_range > 0 THEN Rat(upper_shadow, price_range) ELSE Whole(0)
        lower_shadow_ratio == IF price_range > 0 THEN Rat(lower_shadow, price_range) ELSE Whole(0)
        hlc == ohlcv_data.high + ohlcv_data.low + ohlcv_data.close
        volume_ratio == IF hlc > 0 THEN Rat(ohlcv_data.volume, hlc) ELSE Whole(0)
        price_change == IF ohlcv_data.open > 0
                        THEN Rat(ohlcv_data.close - ohlcv_data.open, ohlcv_data.open)
                        ELSE Whole(0)
        rsi_approx == rsi_clamp(price_change)
    IN  [open |-> Whole(ohlcv_data.open), high |-> Whole(ohlcv_data.high),
         low |-> Whole(ohlcv_data.low), close |-> Whole(ohlcv_data.close),
         volume |-> Whole(ohlcv_data.volume), price_range |-> Whole(price_range),
         body_size |-> Whole(body_size), upper_shadow |-> Whole(upper_shadow),
         lower_shadow |-> Whole(lower_shadow), body_ratio |-> body_ratio,
         upper_shadow_ratio |-> upper_shadow_ratio,
         lower_shadow_ratio |-> lower_shadow_ratio, volume_ratio |-> volume_ratio,
         price_change |-> price_change, rsi_approx |-> rsi_approx]

\* feature_vector of create_features: the same values in the fixed order
feature_vector(features_dict) == [i \in 1..Len(FeatureNames) |-> features_dict[FeatureNames[i]]]

NoFeatures == [f \in {FeatureNames[i] : i \in 1..Len(FeatureNames)} |-> Whole(0)]

\* ---- fitted objects and the two pickle files ----
\* an estimator object: None, constructed but not fitted, or fitted by run `fit`
\* of create_demo_model on matrices of n_features columns
NoneObj == [kind |-> "None", fit |-> 0, n_features |-> 0]
UnfittedObj == [kind |-> "unfitted", fit |-> 0, n_features |-> 0]
FittedObj(n, k) == [kind |-> "fitted", fit |-> n, n_features |-> k]

AbsentFile == [kind |-> "absent", obj |-> NoneObj]
CorruptFile == [kind |-> "corrupt", obj |-> NoneObj]
PickleFile(o) == [kind |-> "pickle", obj |-> o]

\* where a run of create_demo_model ends: normally, or with the exception of
\* one of its fallible calls (a failed dump leaves the file untouched when the
\* open fails, truncated when the write fails)
BuildOutcomes == {"ok", "raise_generate", "raise_scaler_fit", "raise_model_fit",
                  "raise_dump_model_open", "raise_dump_model_write",
                  "raise_dump_scaler_open", "raise_dump_scaler_write"}

\* one synthetic training row: its width is what the pair is fitted on
TrainingRowWidth ==
    Len(feature_vector(create_features([open |-> 1, high |-> 1, low |-> 1, close |-> 1, volume |-> 0])))

\* the lines of create_demo_model that `out` lets run
ran_scaler_ctor(out) == out # "raise_generate"
ran_scaler_fit(out) == out \notin {"raise_generate", "raise_scaler_fit"}
ran_model_ctor(out) == ran_scaler_fit(out)
ran_model_fit(out) == ran_model_ctor(out) /\ out # "raise_model_fit"
ran_model_dump(out) == out \in {"ok", "raise_dump_scaler_open", "raise_dump_scaler_write"}
ran_scaler_dump(out) == out = "ok"

\* create_demo_model on the globals g, ending as `out` says: both globals are
\* assigned as soon as the object is constructed and fitted in place, and the
\* files are written last, the model's first
create_demo_model(g, out) ==
    [model |-> IF ran_model_fit(out) THEN FittedObj(g.fits + 1, TrainingRowWidth)
               ELSE IF ran_model_ctor(out) THEN UnfittedObj
               ELSE g.model,
     scaler |-> IF ran_scaler_fit(out) THEN FittedObj(g.fits + 1, TrainingRowWidth)
                ELSE IF ran_scaler_ctor(out) THEN UnfittedObj
                ELSE g.scaler,
     model_loaded |-> g.model_loaded,
     model_file |-> IF ran_model_dump(out)
                    THEN PickleFile(FittedObj(g.fits + 1, TrainingRowWidth))
                    ELSE IF out = "raise_dump_model_write" THEN CorruptFile
                    ELSE g.model_file,
     scaler_file |-> IF ran_scaler_dump(out)
                     THEN PickleFile(FittedObj(g.fits + 1, TrainingRowWidth))
                     ELSE IF out = "raise_dump_scaler_write" THEN CorruptFile
                     ELSE g.scaler_file,
     fits |-> g.fits + 1,
     raised |-> out # "ok"]

\* the except branch of load_or_create_model
load_or_create_model_except(g, out2) ==
    LET b == create_demo_model(g, out2)
    IN  IF b.raised THEN b ELSE [b EXCEPT !.model_loaded = TRUE]

\* load_or_create_model; out1 and out2 are the outcomes of its first and
\* second create_demo_model call, when it makes them
load_or_create_model(g, out1, out2) ==
    IF g.model_file.kind # "absent" /\ g.scaler_file.kind # "absent"
    THEN IF g.model_file.kind = "corrupt"
         THEN load_or_create_model_except(g, out2)
         ELSE LET g1 == [g EXCEPT !.model = g.model_file.obj]
              IN  IF g1.scaler_file.kind = "corrupt"
                  THEN load_or_create_model_except(g1, out2)
                  ELSE [g1 EXCEPT !.scaler = g1.scaler_file.obj,
                                  !.model_loaded = TRUE, !.raised = FALSE]
    ELSE LET b == create_demo_model(g, out1)
         IN  IF b.raised
             THEN load_or_create_model_except(b, out2)
             ELSE [b EXCEPT !.model_loaded = TRUE]

\* retrain_model that marks the pair loaded whatever create_demo_model did
retrain_model_marks_loaded(g, out) ==
    [create_demo_model([g EXCEPT !.model_loaded = FALSE], out) EXCEPT !.model_loaded = TRUE]

\* retrain_model: the globals after the handler
retrain_model(g, out) ==
    create_demo_model([g EXCEPT !.model_loaded = FALSE], out)

\* ---- responses ----
\* what a handler hands back: the HTTP status and detail, the fields of the
\* body, and (stages, scaler_used, model_used) the calls predict made on the way
NoResponse ==
    [op |-> "none", status |-> 0, detail |-> "", stages |-> <<>>, data |-> NoData,
     data_source |-> "", symbol |-> "", features |-> NoFeatures, prediction |-> 0,
     probability |-> 0, confidence |-> "", scaler_used |-> NoneObj,
     model_used |-> NoneObj, health |-> "", model_loaded |-> FALSE]

HTTPException(status, detail, stages, data) ==
    [NoResponse EXCEPT !.op = "predict", !.status = status, !.detail = detail,
                       !.stages = stages, !.data = data]

\* health_check
health_check(g) ==
    [NoResponse EXCEPT !.op = "health", !.status = 200, !.health = "healthy",
                       !.model_loaded = g.model_loaded]

\* the response of retrain_model, r being the globals it leaves
retrain_response(r) ==
    IF r.raised
    THEN [NoResponse EXCEPT !.op = "retrain", !.status = 500, !.detail = "Retraining failed"]
    ELSE [NoResponse EXCEPT !.op = "retrain", !.status = 200,
                            !.detail = "Model retrained successfully",
                            !.model_loaded = r.model_loaded]

\* ---- fetch_stock_data ----
Symbols == {"AAPL", " aapl "}
NoSymbol == "<None>"
\* request.symbol.strip().upper()
strip_upper(symbol) == IF symbol = " aapl " THEN "AAPL" ELSE symbol

\* what the provider hands back: an empty history, a last row with a NaN
\* price, an exception, or a last row of numbers
FetchEmpty == [kind |-> "empty", bar |-> NoData]
FetchNaN == [kind |-> "nan", bar |-> NoData]
FetchError == [kind |-> "error", bar |-> NoData]
FetchBar(b) == [kind |-> "bar", bar |-> b]

\* the field constraints of OHLCVData (gt=0 on prices, ge=0 on volume)
OHLCVData_valid(b) ==
    b.open > 0 /\ b.high > 0 /\ b.low > 0 /\ b.close > 0 /\ b.volume >= 0

\* fetch_stock_data: the observation, or the HTTPException it raises
fetch_stock_data(symbol, fetched) ==
    CASE fetched.kind = "empty" ->
            [raised |-> TRUE, status |-> 404, detail |-> "No data found", data |-> NoData]
      [] fetched.kind = "nan" ->
            [raised |-> TRUE, status |-> 400, detail |-> "Incomplete data", data |-> NoData]
      [] fetched.kind = "bar" /\ OHLCVData_valid(fetched.bar) ->
            [raised |-> FALSE, status |-> 200, detail |-> "", data |-> fetched.bar]
      [] OTHER ->
            [raised |-> TRUE, status |-> 500, detail |-> "Failed to fetch data", data |-> NoData]

\* ---- predict_price_movement ----
\* the thresholds of the confidence tiers, in percent
HighThreshold == 80
MediumThreshold == 60

\* the tiers with strict comparisons
confidence_tier_strict(max_prob) ==
    IF max_prob > HighThreshold THEN "High"
    ELSE IF max_prob > MediumThreshold THEN "Medium"
    ELSE "Low"

\* the confidence of max_prob (in percent)
confidence_tier(max_prob) ==
    IF max_prob >= HighThreshold THEN "High"
    ELSE IF max_prob >= MediumThreshold THEN "Medium"
    ELSE "Low"

\* `except HTTPException: raise` made to wrap the exception like any other
except_HTTPException_wrapped(r) ==
    [r EXCEPT !.status = 500, !.detail = "Prediction failed"]

\* `except HTTPException: raise`: the exception leaves the handler as it is
except_HTTPException(r) == r

\* `except Exception`: anything else becomes a 500
except_Exception(stages, data) == HTTPException(500, "Prediction failed", stages, data)

\* can estimator e take a row of `width` columns
accepts(e, width) == e.kind = "fitted" /\ e.n_features = width

\* from create_features to the response; p1 is the probability of class 1, in
\* percent, that the classifier gives the scaled row
predict_infer(g, data, data_source, symbol, stages, p1) ==
    LET features_dict == create_features(data)
        width == Len(feature_vector(features_dict))
        s1 == Append(stages, "features")
        s2 == Append(s1, "scale")
        s3 == Append(s2, "classify")
        s4 == Append(s3, "bucket")
        prediction == IF p1 > 100 - p1 THEN 1 ELSE 0
        max_prob == Max2(100 - p1, p1)
    IN  IF ~accepts(g.scaler, width)
        THEN [except_Exception(s2, data) EXCEPT !.scaler_used = g.scaler]
        ELSE IF ~accepts(g.model, width)
        THEN [except_Exception(s3, data) EXCEPT !.scaler_used = g.scaler,
                                                !.model_used = g.model]
        ELSE [NoResponse EXCEPT !.op = "predict", !.status = 200, !.stages = s4,
                                !.data = data, !.data_source = data_source,
                                !.symbol = symbol, !.features = features_dict,
                                !.prediction = prediction, !.probability = max_prob,
                                !.confidence = confidence_tier(max_prob),
                                !.scaler_used = g.scaler, !.model_used = g.model]

\* predict that extracts, scales and classifies whatever the validator says
predict_validate_skipped(g, data, data_source, symbol, stages, p1) ==
    predict_infer(g, data, data_source, symbol, Append(stages, "validate"), p1)

\* the validation step and what follows it
predict_validate(g, data, data_source, symbol, stages, p1) ==
    IF ~validate_ohlcv_data(data)
    THEN except_HTTPException(
            HTTPException(400, "Invalid OHLCV data", Append(stages, "validate"), data))
    ELSE predict_infer(g, data, data_source, symbol, Append(stages, "validate"), p1)

\* the choice of the input mode and what follows it
predict_input(g, request, fetched, p1) ==
    IF request.ohlcv_data # NoData
    THEN predict_validate(g, request.ohlcv_data, "manual", NoSymbol, <<>>, p1)
    ELSE IF request.symbol # NoSymbol
    THEN LET symbol == strip_upper(request.symbol)
             f == fetch_stock_data(symbol, fetched)
         IN  IF f.raised
             THEN except_HTTPException(
                    [HTTPException(f.status, f.detail, <<"fetch">>, NoData)
                        EXCEPT !.data_source = "symbol", !.symbol = symbol])
             ELSE predict_validate(g, f.data, "symbol", symbol, <<"fetch">>, p1)
    ELSE except_HTTPException(
            HTTPException(400, "Either 'ohlcv_data' or 'symbol' must be provided", <<>>, NoData))

\* predict without the model_loaded check
predict_price_movement_unchecked(g, request, fetched, p1) ==
    predict_input(g, request, fetched, p1)

\* predict_price_movement: the response to `request`
predict_price_movement(g, request, fetched, p1) ==
    IF ~g.model_loaded
    THEN except_HTTPException(HTTPException(503, "Model not loaded", <<>>, NoData))
    ELSE predict_input(g, request, fetched, p1)

\* ---- state ----
VARIABLES
    model,          \* global model
    scaler,         \* global scaler
    model_loaded,   \* global model_loaded
    model_file,     \* price_predictor_model.pkl
    scaler_file,    \* price_scaler.pkl
    fits,           \* runs of create_demo_model so far (names the fits)
    started,        \* startup_event has run and the process serves requests
    resp            \* the response of the last handler

vars == <<model, scaler, model_loaded, model_file, scaler_file, fits, started, resp>>

\* the globals and files, as the operators above take them
G == [model |-> model, scaler |-> scaler, model_loaded |-> model_loaded,
      model_file |-> model_file, scaler_file |-> scaler_file, fits |-> fits,
      raised |-> FALSE]

\* a fresh deployment: the module's globals, no pickle file
Init ==
    /\ model = NoneObj
    /\ scaler = NoneObj
    /\ model_loaded = FALSE
    /\ model_file = AbsentFile
    /\ scaler_file = AbsentFile
    /\ fits = 0
    /\ started = FALSE
    /\ resp = NoResponse

\* startup_event returns: the process starts serving
Startup ==
    /\ ~started
    /\ \E out1, out2 \in BuildOutcomes :
         \E r \in {load_or_create_model(G, out1, out2)} :
             /\ r.fits <= MaxFits
             /\ ~r.raised
             /\ model' = r.model
             /\ scaler' = r.scaler
             /\ model_loaded' = r.model_loaded
             /\ model_file' = r.model_file
             /\ scaler_file' = r.scaler_file
             /\ fits' = r.fits
    /\ started' = TRUE
    /\ resp' = NoResponse

\* startup_event raises: the server gives up and the process exits, which
\* leaves the files as they are and nothing of the globals
StartupFails ==
    /\ ~started
    /\ \E out1, out2 \in BuildOutcomes :
         \E r \in {load_or_create_model(G, out1, out2)} :
             /\ r.fits <= MaxFits
             /\ r.raised
             /\ model_file' = r.model_file
             /\ scaler_file' = r.scaler_file
             /\ fits' = r.fits
    /\ model' = NoneObj
    /\ scaler' = NoneObj
    /\ model_loaded' = FALSE
    /\ started' = FALSE
    /\ resp' = NoResponse

\* the process is stopped; the next one starts from the module's globals
Restart ==
    /\ started
    /\ model' = NoneObj
    /\ scaler' = NoneObj
    /\ model_loaded' = FALSE
    /\ started' = FALSE
    /\ resp' = NoResponse
    /\ UNCHANGED <<model_file, scaler_file, fits>>

\* POST /retrain
Retrain ==
    /\ started
    /\ \E out \in BuildOutcomes :
         \E r \in {retrain_model(G, out)} :
             /\ r.fits <= MaxFits
             /\ model' = r.model
             /\ scaler' = r.scaler
             /\ model_loaded' = r.model_loaded
             /\ model_file' = r.model_file
             /\ scaler_file' = r.scaler_file
             /\ fits' = r.fits
             /\ resp' = retrain_response(r)
    /\ UNCHANGED started

\* GET /health
Health ==
    /\ started
    /\ resp' = health_check(G)
    /\ UNCHANGED <<model, scaler, model_loaded, model_file, scaler_file, fits, started>>

\* POST /predict with ohlcv_data (the symbol, if given too, is ignored)
PredictManual(bars, symbols, probs) ==
    /\ started
    /\ \E b \in bars, s \in symbols, p1 \in probs :
         resp' = predict_price_movement(G, [ohlcv_data |-> b, symbol |-> s], FetchEmpty, p1)
    /\ UNCHANGED <<model, scaler, model_loaded, model_file, scaler_file, fits, started>>

\* POST /predict with a symbol only
PredictSymbol(symbols, fetches, probs) ==
    /\ started
    /\ \E s \in symbols, f \in fetches, p1 \in probs :
         resp' = predict_price_movement(G, [ohlcv_data |-> NoData, symbol |-> s], f, p1)
    /\ UNCHANGED <<model, scaler, model_loaded, model_file, scaler_file, fits, started>>

\* POST /predict with neither
PredictEmpty ==
    /\ started
    /\ resp' = predict_price_movement(G, [ohlcv_data |-> NoData, symbol |-> NoSymbol], FetchEmpty, 0)
    /\ UNCHANGED <<model, scaler, model_loaded, model_file, scaler_file, fits, started>>

\* ---- inputs ----
\* the requests of the life-cycle specification: a consistent bar, a flat bar
\* and a bar with high < low; the classifier's answers at and around a tie
RisingBar == [open |-> 1, high |-> MaxPrice, low |-> 1, close |-> MaxPrice, volume |-> MaxVolume]
FlatBar == [open |-> 1, high |-> 1, low |-> 1, close |-> 1, volume |-> 0]
InvertedBar == [open |-> 1, high |-> 1, low |-> MaxPrice, close |-> 1, volume |-> MaxVolume]
SampleBars == {RisingBar, FlatBar, InvertedBar}
SampleFetches == {FetchEmpty, FetchNaN, FetchError, FetchBar(RisingBar), FetchBar(InvertedBar)}
SampleProbs == {50, HighThreshold}

\* the requests of the pipeline specification: every bar, every provider
\* answer (a row with a zero price among them), the classifier's answers on
\* both sides of each threshold
ZeroPriceBar == [open |-> 0, high |-> 1, low |-> 1, close |-> 1, volume |-> 0]
AllFetches == {FetchEmpty, FetchNaN, FetchError, FetchBar(ZeroPriceBar)}
                 \cup {FetchBar(b) : b \in OHLCVData}
AllProbs == {100 - HighThreshold, 100 - MediumThreshold + 1, 50, MediumThreshold - 1,
             MediumThreshold, HighThreshold - 1, HighThreshold, 100}

\* ---- the life cycle of the deployment ----
Next ==
    \/ Startup
    \/ StartupFails
    \/ Restart
    \/ Retrain
    \/ Health
    \/ PredictManual(SampleBars, Symbols \cup {NoSymbol}, SampleProbs)
    \/ PredictSymbol(Symbols, SampleFetches, SampleProbs)
    \/ PredictEmpty

Spec == Init /\ [][Next]_vars

\* ---- the pipeline on a serving process ----
\* the state a first startup on a clean directory leaves
InitPipeline ==
    LET r == load_or_create_model(
                [model |-> NoneObj, scaler |-> NoneObj, model_loaded |-> FALSE,
                 model_file |-> AbsentFile, scaler_file |-> AbsentFile, fits |-> 0,
                 raised |-> FALSE], "ok", "ok")
    IN  /\ model = r.model
        /\ scaler = r.scaler
        /\ model_loaded = r.model_loaded
        /\ model_file = r.model_file
        /\ scaler_file = r.scaler_file
        /\ fits = r.fits
        /\ started = TRUE
        /\ resp = NoResponse

NextPipeline ==
    \/ PredictManual(OHLCVData, {NoSymbol}, AllProbs)
    \/ PredictSymbol({" aapl "}, AllFetches, AllProbs)
    \/ PredictEmpty

SpecPipeline == InitPipeline /\ [][NextPipeline]_vars

\* ---- properties ----
Contains(seq, x) == \E i \in 1..Len(seq) : seq[i] = x
IsPrefix(s, t) == Len(s) <= Len(t) /\ SubSeq(t, 1, Len(s)) = s
\* the order the stages of one call are meant to run in, after the optional fetch
StageOrder == <<"validate", "features", "scale", "classify", "bucket">>
AfterFetch(stages) == IF stages # <<>> /\ Head(stages) = "fetch" THEN Tail(stages) ELSE stages
\* the observation breaks one of the five consistency rules
Inconsistent(d) ==
    d.high < d.low \/ d.high < d.open \/ d.high < d.close \/ d.low > d.open \/ d.low > d.close
\* no fitted pair is installed
PairMissing == model.kind # "fitted" \/ scaler.kind # "fitted"
IsPredict == resp.op = "predict"

\* C1: a predict call that follows a retrain call which completed successfully
\* is not rejected as "model unavailable"
C1_RetrainEndsUnavailable ==
    [][(resp.op = "retrain" /\ resp.status = 200 /\ resp'.op = "predict")
          => resp'.status # 503]_vars

\* C2: while no fitted pair is loaded (model_loaded is false, or the scaler or
\* the classifier is absent or unfitted), every predict call, with manual or
\* symbol input, ends 503 "Model not loaded" and has run no stage: no fetch, no
\* validation, no feature extraction, no scaling, no classification
C2_UnavailableFailsFast ==
    (IsPredict /\ (~model_loaded \/ PairMissing))
        => resp.status = 503 /\ resp.detail = "Model not loaded" /\ resp.stages = <<>>

\* a predict call was turned away while the classifier or scaler was unfitted
C2_Witness == IsPredict /\ resp.status = 503 /\ PairMissing

\* C3: a predict call that scales and classifies uses a fitted scaler and a
\* fitted classifier that come from the same fit
C3_PairFromOneFit ==
    (IsPredict /\ Contains(resp.stages, "scale"))
        => /\ resp.scaler_used.kind = "fitted"
           /\ Contains(resp.stages, "classify")
           /\ resp.model_used.kind = "fitted"
           /\ resp.model_used.fit = resp.scaler_used.fit

\* C4: the stages of a call run in the order validate, features, scale,
\* classify, bucket, each only after the one before it; a call whose (manual or
\* fetched) observation is inconsistent ends 400 right after validation, with
\* no feature extraction, scaling or classification
C4_ValidationGatesPipeline ==
    IsPredict =>
        /\ IsPrefix(AfterFetch(resp.stages), StageOrder)
        /\ (Contains(resp.stages, "validate") /\ Inconsistent(resp.data))
              => /\ resp.status = 400
                 /\ AfterFetch(resp.stages) = <<"validate">>

\* a fetched observation with high < low was rejected at validation
C4_Witness ==
    /\ IsPredict
    /\ resp.data.high < resp.data.low
    /\ resp.stages = <<"fetch", "validate">>
    /\ resp.status = 400

\* C5: validation fails exactly when high < low, or high < open, or
\* high < close, or low > open, or low > close, for every observation with
\* positive prices and non-negative volume, and the call that validates leaves
\* the globals and the files as the startup left them
C5_ValidatorExact ==
    /\ \A d \in OHLCVData : validate_ohlcv_data(d) = ~Inconsistent(d)
    /\ (IsPredict /\ Contains(resp.stages, "validate"))
          => (resp.status = 400) = Inconsistent(resp.data)
    /\ model = FittedObj(1, TrainingRowWidth) /\ scaler = FittedObj(1, TrainingRowWidth)
    /\ model_loaded
    /\ model_file = PickleFile(model) /\ scaler_file = PickleFile(scaler)

\* an observation whose only fault is low > close was rejected
C5_Witness ==
    /\ IsPredict
    /\ resp.status = 400
    /\ resp.data.low > resp.data.close
    /\ resp.data.high >= resp.data.low
    /\ resp.data.high >= resp.data.open
    /\ resp.data.low <= resp.data.open

\* the tiers that apply to max_prob (in percent) by the three rules of the claim
TiersOf(max_prob) ==
    {t \in {"High", "Medium", "Low"} :
        \/ t = "High" /\ max_prob >= HighThreshold
        \/ t = "Medium" /\ MediumThreshold <= max_prob /\ max_prob < HighThreshold
        \/ t = "Low" /\ max_prob < MediumThreshold}

\* C6: every max_prob in [0, 1] gets exactly one tier, High from 0.8, Medium
\* from 0.6 to below 0.8, Low below 0.6, the two boundaries being High and
\* Medium; and that is the confidence of every prediction
C6_TiersPartition ==
    /\ \A p \in 0..100 : TiersOf(p) = {confidence_tier(p)}
    /\ confidence_tier(HighThreshold) = "High"
    /\ confidence_tier(MediumThreshold) = "Medium"
    /\ (IsPredict /\ resp.status = 200) => TiersOf(resp.probability) = {resp.confidence}

\* a prediction with max_prob exactly at the Medium boundary
C6_Witness ==
    IsPredict /\ resp.status = 200 /\ resp.probability = MediumThreshold
              /\ resp.confidence = "Medium"

\* the fetch of a symbol request produced no observation
FetchFailed == IsPredict /\ resp.data_source = "symbol" /\ resp.data = NoData

\* C7 as stated: a fetch that produces no observation always ends the call as
\* an input-level (4xx) failure, never as an internal (5xx) one
C7_FetchFailureIsInputLevel == FetchFailed => resp.status \in {400, 404}

\* C7 as amended: a fetch that produces no observation ends the call with the
\* very condition fetch_stock_data raised (404 no data, 400 incomplete data,
\* 500 failed to fetch), never rewrapped as "Prediction failed", and the call
\* runs no stage after the fetch
C7_FetchFailureSurfaced ==
    FetchFailed =>
        /\ <<resp.status, resp.detail>> \in
              {<<404, "No data found">>, <<400, "Incomplete data">>,
               <<500, "Failed to fetch data">>}
        /\ resp.stages = <<"fetch">>

\* the provider had no data for the symbol and the call ended 404
C7_Witness == FetchFailed /\ resp.status = 404 /\ resp.symbol = "AAPL"

\* C8: the health check does not answer "healthy" while no fitted pair is
\* installed
C8_HealthReflectsUnavailable ==
    (resp.op = "health" /\ PairMissing) => resp.health # "healthy"

\* the denominators of all the features of d are positive
DenominatorsPositive(features) ==
    \A i \in 1..Len(FeatureNames) : features[FeatureNames[i]].den > 0

\* C9: an observation with high = low has body_ratio, upper_shadow_ratio and
\* lower_shadow_ratio equal to 0, and no feature of any observation is the
\* result of a division by a denominator <= 0
C9_ZeroRangeGuard ==
    /\ \A d \in OHLCVData :
          /\ DenominatorsPositive(create_features(d))
          /\ d.high <= d.low =>
                /\ create_features(d).body_ratio = Whole(0)
                /\ create_features(d).upper_shadow_ratio = Whole(0)
                /\ create_features(d).lower_shadow_ratio = Whole(0)
    /\ (IsPredict /\ resp.status = 200) =>
          /\ DenominatorsPositive(resp.features)
          /\ resp.data.high = resp.data.low =>
                /\ resp.features.body_ratio = Whole(0)
                /\ resp.features.upper_shadow_ratio = Whole(0)
                /\ resp.features.lower_shadow_ratio = Whole(0)

\* a prediction was made for a flat bar
C9_Witness ==
    /\ IsPredict
    /\ resp.status = 200
    /\ resp.data.high = resp.data.low
    /\ resp.features.price_range = Whole(0)
    /\ resp.features.body_ratio = Whole(0)

\* C10: model_loaded implies that the model and the scaler are both installed
\* and fitted, so a predict call past the model_loaded check finds a scaler
\* and a classifier that take its row
C10_LoadedImpliesFitted ==
    /\ model_loaded => model.kind = "fitted" /\ scaler.kind = "fitted"
    /\ (IsPredict /\ Contains(resp.stages, "scale")) => resp.status = 200

\* a prediction served by a pair that was installed after an earlier build had
\* failed or been replaced
C10_Witness ==
    /\ model_loaded
    /\ model.fit >= 2
    /\ IsPredict
    /\ resp.status = 200
====
